---- MODULE Spec2Model ----
(***************************************************************************)
(* Model of the sequence execution engine of Cryostat-GUI (Sequence.py):   *)
(* Sequence_Thread.running with wait_for_Temp, wait_for_Field and stop,    *)
(* and measure_resistance.                                                 *)
(*                                                                         *)
(* Units: temperatures and thresholds are integers in hundredths of a      *)
(* kelvin (4.3 K = 430, threshold 0.01 K = 1, offset 5 K = 500); sleeps    *)
(* are in tenths of a second (time.sleep(0.1) = 1, a Delay of 1 s = 10).   *)
(* Quotients and means of measure_resistance are exact rationals           *)
(* <<numerator, denominator>>.                                             *)
(***************************************************************************)
EXTENDS Integers, Sequences, FiniteSets, TLC

VARIABLES
    \* ---- Sequence_Thread ----
    sequence,           \* self.sequence
    isRunning,          \* self.__isRunning
    temp_VTI_offset,    \* self.temp_VTI_offset
    widgetSetpoints,    \* mainthread.<X>_window.widgetSetpoints enabled state
    controllers,        \* setpoint state of control_ITC / control_LakeShore350
    data,               \* mainthread.data (shared telemetry)
    dataLock,           \* mainthread.dataLock: "free", "seq" or "upd"
    pc,                 \* position of the worker inside running()
    idx,                \* index of `entry` in self.sequence
    tidx,               \* index of temp_setpoint_sample in the scan
    temp_setpoint_VTI,  \* local of running()
    Temp_now,           \* local of wait_for_Temp
    polls,              \* iterations of the while loop of this wait_for_Temp
    raised,             \* exception in flight in running()
    result,             \* how running() ended
    log,                \* operations performed, in order
    \* ---- measure_resistance ----
    conf,               \* the configuration dict
    rig,                \* the simulated instruments behind conf['threads']
    mpc,                \* position inside measure_resistance
    midx,               \* idx of the outer loop
    cfi,                \* index of currentfactor in [1, -1]
    temps,              \* local list temps
    resistances,        \* local list resistances
    mdata,              \* the returned dict, or how the call ended
    mlog,               \* operations performed, in order
    \* ---- AbstractSerialDeviceDriver ----
    comLock,            \* self._comLock: 0 when free, else the thread holding it
    dpc,                \* position of each thread inside a driver method
    dcall,              \* the driver method each thread called last
    dread,              \* what the VISA operation of that call did
    dout,               \* how that call ended for its caller
    \* ---- OneShot_Thread ----
    opc,                \* position of the thread: "idle" or "measuring"
    pending,            \* emissions of sig_measure_oneshot not yet handled
    handled,            \* emissions handled by the connected lambda
    slotcalls,          \* direct invocations of the slot measure_oneshot
    mcalls,             \* calls of measure_resistance
    stored              \* emissions on conf['store_signal'], in order

seqvars == <<sequence, isRunning, temp_VTI_offset, widgetSetpoints, controllers,
             data, dataLock, pc, idx, tidx, temp_setpoint_VTI, Temp_now, polls,
             raised, result, log>>
mvars == <<conf, rig, mpc, midx, cfi, temps, resistances, mdata, mlog>>
dvars == <<comLock, dpc, dcall, dread, dout>>
ovars == <<opc, pending, handled, slotcalls, mcalls, stored>>
vars == <<seqvars, mvars, dvars, ovars>>

----------------------------------------------------------------------------
\* Bounds of the model
MaxSteps == 2       \* longest sequence explored
MaxPolls == 2       \* iterations of the polling loop explored per wait_for_Temp
MaxN == 2           \* largest n_measurements explored
NThreads == 2       \* threads that use one driver
MaxRequests == 2    \* one-shot requests, and direct slot calls, explored

----------------------------------------------------------------------------
\* Values
NoValue == -1
VTI_floor == 430            \* 4.3 K
threshold == 1              \* wait_for_Temp default threshold=0.01
poll_sleep == 1             \* time.sleep(0.1)

Widgets == {"ITC_window", "ILM_window", "IPS_window", "LakeShore350_window"}
WidgetOrder == <<"ITC_window", "ILM_window", "IPS_window", "LakeShore350_window">>

Abs(x) == IF x < 0 THEN -x ELSE x

Ev(op, dev, val) == [op |-> op, dev |-> dev, val |-> val]

\* entries of a sequence
scan_T(ts) == [typ |-> "scan_T", sequence_temperature |-> ts]
Wait(T, F, D) == [typ |-> "Wait", Temp |-> T, Field |-> F, Delay |-> D]

Steps == {scan_T(<<430>>), scan_T(<<1000, 300>>), Wait(430, 0, 1)}
Sequences == UNION {[1..n -> Steps] : n \in 1..MaxSteps}

TempValues == {428, 429}
FieldValues == {0, 10}
Offsets == {0, 500}

----------------------------------------------------------------------------
\* Sequence_Thread

IdleControllers == [control_ITC |-> [toset |-> NoValue, setpoint |-> NoValue],
                    control_LakeShore350 |-> [toset |-> NoValue, setpoint |-> NoValue]]

\* the state outside a call of measure_resistance
MeasureIdle ==
    /\ conf = [current_applied |-> 1, n_measurements |-> 1]
    /\ rig = [R |-> 0, V_off |-> 0, T |-> 0, loops |-> TRUE,
              toset |-> NoValue, current |-> NoValue]
    /\ mpc = "idle"
    /\ midx = 0
    /\ cfi = 0
    /\ temps = <<>>
    /\ resistances = <<>>
    /\ mdata = "none"
    /\ mlog = <<>>

Threads == 1..NThreads

\* what a driver call can do or raise: [type, code]
NoOutcome == [type |-> "none", code |-> 0]
Ok == [type |-> "ok", code |-> 0]

\* AbstractSerialDeviceDriver.__init__: the lock is free, no thread is in a call
DriverIdle ==
    /\ comLock = 0
    /\ dpc = [t \in Threads |-> "idle"]
    /\ dcall = [t \in Threads |-> [op |-> "none", f |-> FALSE]]
    /\ dread = [t \in Threads |-> NoOutcome]
    /\ dout = [t \in Threads |-> NoOutcome]

\* OneShot_Thread.__init__: connected, nothing requested yet
OneShotIdle ==
    /\ opc = "idle"
    /\ pending = 0
    /\ handled = 0
    /\ slotcalls = 0
    /\ mcalls = 0
    /\ stored = <<>>

\* Sequence_Thread.__init__
SeqConstructed ==
    /\ isRunning = TRUE
    /\ temp_VTI_offset = 500
    /\ widgetSetpoints = [w \in Widgets |-> TRUE]
    /\ controllers = IdleControllers
    /\ dataLock = "free"
    /\ pc = "idle"
    /\ idx = 0
    /\ tidx = 0
    /\ temp_setpoint_VTI = NoValue
    /\ Temp_now = NoValue
    /\ polls = 0
    /\ raised = "none"
    /\ result = "none"
    /\ log = <<>>

Init ==
    /\ sequence \in Sequences
    /\ data \in [Sensor_1_K : TempValues, Field : FieldValues]
    /\ SeqConstructed
    /\ MeasureIdle
    /\ DriverIdle
    /\ OneShotIdle

\* setEnabled(flag) on the four widgetSetpoints, in the order of the code
SetEnabledAll(flag) ==
    /\ widgetSetpoints' = [w \in Widgets |-> flag]
    /\ log' = log \o [i \in 1..4 |-> Ev("setEnabled", WidgetOrder[i], IF flag THEN 1 ELSE 0)]

\* Raise with a handler that catches every exception ("except Exception:")
RaiseCaughtByAnyHandler(e) ==
    /\ raised' = e
    /\ pc' = "except"

\* an exception e leaves the try body of running()
Raise(e) ==
    /\ raised' = e
    /\ pc' = IF e = "BreakCondition" THEN "except" ELSE "finally"

\* RunDisable that also re-arms the stop flag at the start of the run
RunDisableRearmsFlag ==
    /\ pc = "idle"
    /\ SetEnabledAll(FALSE)
    /\ isRunning' = TRUE
    /\ idx' = 1
    /\ pc' = "for"
    /\ UNCHANGED <<sequence, temp_VTI_offset, controllers, data, dataLock,
                   tidx, temp_setpoint_VTI, Temp_now, polls, raised, result, mvars, dvars, ovars>>

\* running(): the four setEnabled(False) at the top of the try block
RunDisable ==
    /\ pc = "idle"
    /\ SetEnabledAll(FALSE)
    /\ idx' = 1
    /\ pc' = "for"
    /\ UNCHANGED <<sequence, isRunning, temp_VTI_offset, controllers, data, dataLock,
                   tidx, temp_setpoint_VTI, Temp_now, polls, raised, result, mvars, dvars, ovars>>

\* for entry in self.sequence: dispatch on entry['typ'], or leave the loop
ForEntry ==
    /\ pc = "for"
    /\ IF idx > Len(sequence)
         THEN pc' = "finally" /\ tidx' = tidx
         ELSE IF sequence[idx].typ = "scan_T"
                THEN pc' = "scan" /\ tidx' = 1
                ELSE pc' = "wT_check" /\ tidx' = tidx
    /\ UNCHANGED <<sequence, isRunning, temp_VTI_offset, widgetSetpoints, controllers,
                   data, dataLock, idx, temp_setpoint_VTI, Temp_now, polls, raised,
                   result, log, mvars, dvars, ovars>>

\* VTI_setpoint without the floor of 4.3 K
VTI_setpointNoFloor(sample, offset) == sample - offset

\* temp_setpoint_VTI of a sample setpoint
VTI_setpoint(sample, offset) ==
    IF sample - offset < VTI_floor THEN VTI_floor ELSE sample - offset

\* ScanNext with a loop that stops one target early
ScanNextStopsEarly ==
    /\ pc = "scan"
    /\ IF tidx >= Len(sequence[idx].sequence_temperature)
         THEN /\ idx' = idx + 1
              /\ pc' = "for"
              /\ temp_setpoint_VTI' = temp_setpoint_VTI
         ELSE /\ idx' = idx
              /\ pc' = "itc_getto"
              /\ temp_setpoint_VTI' =
                    VTI_setpoint(sequence[idx].sequence_temperature[tidx], temp_VTI_offset)
    /\ UNCHANGED <<sequence, isRunning, temp_VTI_offset, widgetSetpoints, controllers,
                   data, dataLock, tidx, Temp_now, polls, raised, result, log, mvars, dvars, ovars>>

\* for temp_setpoint_sample in entry['sequence_temperature']: next target, or next entry
ScanNext ==
    /\ pc = "scan"
    /\ IF tidx > Len(sequence[idx].sequence_temperature)
         THEN /\ idx' = idx + 1
              /\ pc' = "for"
              /\ temp_setpoint_VTI' = temp_setpoint_VTI
         ELSE /\ idx' = idx
              /\ pc' = "itc_getto"
              /\ temp_setpoint_VTI' =
                    VTI_setpoint(sequence[idx].sequence_temperature[tidx], temp_VTI_offset)
    /\ UNCHANGED <<sequence, isRunning, temp_VTI_offset, widgetSetpoints, controllers,
                   data, dataLock, tidx, Temp_now, polls, raised, result, log, mvars, dvars, ovars>>

\* one call on a control thread: it either acts on the controller or raises
ControllerCall(at, next, op, dev, newstate, val) ==
    /\ pc = at
    /\ \E fault \in BOOLEAN :
         IF fault
           THEN /\ Raise("Fault")
                /\ UNCHANGED <<controllers, log>>
           ELSE /\ controllers' = [controllers EXCEPT ![dev] = newstate]
                /\ log' = Append(log, Ev(op, dev, val))
                /\ pc' = next
                /\ raised' = raised

gettoset_Temperature ==
    /\ ControllerCall("itc_getto", "itc_set", "gettoset_Temperature", "control_ITC",
                      [controllers.control_ITC EXCEPT !.toset = temp_setpoint_VTI],
                      temp_setpoint_VTI)
    /\ UNCHANGED <<sequence, isRunning, temp_VTI_offset, widgetSetpoints, data, dataLock,
                   idx, tidx, temp_setpoint_VTI, Temp_now, polls, result, mvars, dvars, ovars>>

setTemperature ==
    /\ ControllerCall("itc_set", "ls_getto", "setTemperature", "control_ITC",
                      [controllers.control_ITC EXCEPT !.setpoint = controllers.control_ITC.toset],
                      controllers.control_ITC.toset)
    /\ UNCHANGED <<sequence, isRunning, temp_VTI_offset, widgetSetpoints, data, dataLock,
                   idx, tidx, temp_setpoint_VTI, Temp_now, polls, result, mvars, dvars, ovars>>

gettoset_Temp_K ==
    /\ ControllerCall("ls_getto", "ls_set", "gettoset_Temp_K", "control_LakeShore350",
                      [controllers.control_LakeShore350 EXCEPT
                          !.toset = sequence[idx].sequence_temperature[tidx]],
                      sequence[idx].sequence_temperature[tidx])
    /\ UNCHANGED <<sequence, isRunning, temp_VTI_offset, widgetSetpoints, data, dataLock,
                   idx, tidx, temp_setpoint_VTI, Temp_now, polls, result, mvars, dvars, ovars>>

\* setTemp_K() and the no-op check_Temp_in_Scan that follows it
setTemp_K ==
    /\ ControllerCall("ls_set", "scan", "setTemp_K", "control_LakeShore350",
                      [controllers.control_LakeShore350 EXCEPT
                          !.setpoint = controllers.control_LakeShore350.toset],
                      controllers.control_LakeShore350.toset)
    /\ tidx' = IF pc' = "scan" THEN tidx + 1 ELSE tidx
    /\ UNCHANGED <<sequence, isRunning, temp_VTI_offset, widgetSetpoints, data, dataLock,
                   idx, temp_setpoint_VTI, Temp_now, polls, result, mvars, dvars, ovars>>

\* NotReached with ">=" for ">"
NotReachedStrict(now, target, thr) == Abs(now - target) >= thr

\* |Temp_now - Temp_target| > threshold, the condition of the while loop
NotReached(now, target, thr) == Abs(now - target) > thr

\* "if not self.__isRunning: raise BreakCondition" at the top of a wait
BreakCheck(at, next, who) ==
    /\ pc = at
    /\ log' = Append(log, Ev("check", who, IF isRunning THEN 1 ELSE 0))
    /\ IF ~isRunning
         THEN Raise("BreakCondition")
         ELSE pc' = next /\ raised' = raised

\* "with self.dataLock:" is entered (blocks while another thread holds the lock)
AcquireDataLock(at, next) ==
    /\ pc = at
    /\ dataLock = "free"
    /\ dataLock' = "seq"
    /\ pc' = next

\* Temp_now = data['LakeShore350']['Sensor_1_K'] inside the with block; the
\* lookup may raise, and the with block releases the lock either way
ReadTemp(at) ==
    /\ pc = at
    /\ dataLock = "seq"
    /\ dataLock' = "free"
    /\ \E fault \in BOOLEAN :
         IF fault
           THEN /\ Raise("Fault")
                /\ UNCHANGED <<Temp_now, log>>
           ELSE /\ Temp_now' = data.Sensor_1_K
                /\ log' = Append(log, Ev("read", "Sensor_1_K", data.Sensor_1_K))
                /\ raised' = raised

\* where wait_for_Temp goes after evaluating the while condition on `now`
AfterWhileTest(now) ==
    IF NotReached(now, sequence[idx].Temp, threshold) THEN "wT_lock" ELSE "wF_check"

\* wait_for_Temp: check for break condition
WaitTempCheck ==
    /\ BreakCheck("wT_check", "wT_lock1", "wait_for_Temp")
    /\ polls' = 0
    /\ UNCHANGED <<sequence, isRunning, temp_VTI_offset, widgetSetpoints, controllers,
                   data, dataLock, idx, tidx, temp_setpoint_VTI, Temp_now, result, mvars, dvars, ovars>>

\* wait_for_Temp: the first "with self.dataLock"
WaitTempLock1 ==
    /\ AcquireDataLock("wT_lock1", "wT_read1")
    /\ UNCHANGED <<sequence, isRunning, temp_VTI_offset, widgetSetpoints, controllers,
                   data, idx, tidx, temp_setpoint_VTI, Temp_now, polls, raised, result,
                   log, mvars, dvars, ovars>>

\* wait_for_Temp: the first read, then the first test of the while condition
WaitTempRead1 ==
    /\ ReadTemp("wT_read1")
    /\ raised' = "none" => pc' = AfterWhileTest(Temp_now')
    /\ UNCHANGED <<sequence, isRunning, temp_VTI_offset, widgetSetpoints, controllers,
                   data, idx, tidx, temp_setpoint_VTI, polls, result, mvars, dvars, ovars>>

\* wait_for_Temp: "with self.dataLock" inside the while loop
WaitTempLock ==
    /\ polls < MaxPolls
    /\ AcquireDataLock("wT_lock", "wT_read")
    /\ UNCHANGED <<sequence, isRunning, temp_VTI_offset, widgetSetpoints, controllers,
                   data, idx, tidx, temp_setpoint_VTI, Temp_now, polls, raised, result,
                   log, mvars, dvars, ovars>>

\* WaitTempRead with the sleep placed inside the with block: the lock is kept
WaitTempReadKeepsLock ==
    /\ pc = "wT_read"
    /\ dataLock = "seq"
    /\ Temp_now' = data.Sensor_1_K
    /\ log' = Append(log, Ev("read", "Sensor_1_K", data.Sensor_1_K))
    /\ pc' = "wT_sleep"
    /\ UNCHANGED <<sequence, isRunning, temp_VTI_offset, widgetSetpoints, controllers,
                   data, dataLock, idx, tidx, temp_setpoint_VTI, polls, raised, result,
                   mvars, dvars, ovars>>

\* wait_for_Temp: the read inside the while loop
WaitTempRead ==
    /\ ReadTemp("wT_read")
    /\ raised' = "none" => pc' = "wT_sleep"
    /\ UNCHANGED <<sequence, isRunning, temp_VTI_offset, widgetSetpoints, controllers,
                   data, idx, tidx, temp_setpoint_VTI, polls, result, mvars, dvars, ovars>>

\* wait_for_Temp: time.sleep(0.1) outside of the lock, then the while condition
WaitTempSleep ==
    /\ pc = "wT_sleep"
    /\ log' = Append(log, Ev("sleep", "wait_for_Temp", poll_sleep))
    /\ polls' = polls + 1
    /\ pc' = AfterWhileTest(Temp_now)
    /\ UNCHANGED <<sequence, isRunning, temp_VTI_offset, widgetSetpoints, controllers,
                   data, dataLock, idx, tidx, temp_setpoint_VTI, Temp_now, raised,
                   result, mvars, dvars, ovars>>

\* wait_for_Field: check for break condition
WaitFieldCheck ==
    /\ BreakCheck("wF_check", "wF_lock", "wait_for_Field")
    /\ UNCHANGED <<sequence, isRunning, temp_VTI_offset, widgetSetpoints, controllers,
                   data, dataLock, idx, tidx, temp_setpoint_VTI, Temp_now, polls,
                   result, mvars, dvars, ovars>>

\* wait_for_Field: "with self.dataLock"
WaitFieldLock ==
    /\ AcquireDataLock("wF_lock", "wF_pass")
    /\ UNCHANGED <<sequence, isRunning, temp_VTI_offset, widgetSetpoints, controllers,
                   data, idx, tidx, temp_setpoint_VTI, Temp_now, polls, raised, result,
                   log, mvars, dvars, ovars>>

\* WaitFieldPass that leaves the locked section without releasing the lock
WaitFieldPassKeepsLock ==
    /\ pc = "wF_pass"
    /\ dataLock = "seq"
    /\ pc' = "wF_sleep"
    /\ UNCHANGED <<sequence, isRunning, temp_VTI_offset, widgetSetpoints, controllers,
                   data, dataLock, idx, tidx, temp_setpoint_VTI, Temp_now, polls, raised,
                   result, log, mvars, dvars, ovars>>

\* wait_for_Field: the body of the with block is "pass"; the lock is released
WaitFieldPass ==
    /\ pc = "wF_pass"
    /\ dataLock = "seq"
    /\ dataLock' = "free"
    /\ pc' = "wF_sleep"
    /\ UNCHANGED <<sequence, isRunning, temp_VTI_offset, widgetSetpoints, controllers,
                   data, idx, tidx, temp_setpoint_VTI, Temp_now, polls, raised, result,
                   log, mvars, dvars, ovars>>

\* wait_for_Field: time.sleep(0.1), then the wait returns
WaitFieldSleep ==
    /\ pc = "wF_sleep"
    /\ log' = Append(log, Ev("sleep", "wait_for_Field", poll_sleep))
    /\ pc' = "delay"
    /\ UNCHANGED <<sequence, isRunning, temp_VTI_offset, widgetSetpoints, controllers,
                   data, dataLock, idx, tidx, temp_setpoint_VTI, Temp_now, polls, raised,
                   result, mvars, dvars, ovars>>

\* running(): time.sleep(entry['Delay']), then the next entry
WaitDelay ==
    /\ pc = "delay"
    /\ log' = Append(log, Ev("sleep", "Delay", 10 * sequence[idx].Delay))
    /\ idx' = idx + 1
    /\ pc' = "for"
    /\ UNCHANGED <<sequence, isRunning, temp_VTI_offset, widgetSetpoints, controllers,
                   data, dataLock, tidx, temp_setpoint_VTI, Temp_now, polls, raised,
                   result, mvars, dvars, ovars>>

\* running(): except BreakCondition: self.sig_aborted.emit(); return 'Aborted!'
ExceptBreakCondition ==
    /\ pc = "except"
    /\ log' = Append(log, Ev("emit", "sig_aborted", 0))
    /\ raised' = "none"
    /\ result' = "Aborted!"
    /\ pc' = "finally"
    /\ UNCHANGED <<sequence, isRunning, temp_VTI_offset, widgetSetpoints, controllers,
                   data, dataLock, idx, tidx, temp_setpoint_VTI, Temp_now, polls, mvars, dvars, ovars>>

\* Finally with the four setEnabled(True) placed after the try statement
\* instead of in a finally block: an exception in flight skips them
EnableOnlyOnReturn ==
    /\ pc = "finally"
    /\ IF raised # "none"
         THEN UNCHANGED <<widgetSetpoints, log>>
         ELSE SetEnabledAll(TRUE)
    /\ result' = IF raised # "none" THEN "raised"
                 ELSE IF result = "Aborted!" THEN "Aborted!" ELSE "None"
    /\ pc' = "done"
    /\ UNCHANGED <<sequence, isRunning, temp_VTI_offset, controllers, data, dataLock,
                   idx, tidx, temp_setpoint_VTI, Temp_now, polls, raised, mvars, dvars, ovars>>

\* running(): the finally block; afterwards the call returns or the exception
\* in flight propagates to the caller
Finally ==
    /\ pc = "finally"
    /\ SetEnabledAll(TRUE)
    /\ result' = IF raised # "none" THEN "raised"
                 ELSE IF result = "Aborted!" THEN "Aborted!" ELSE "None"
    /\ pc' = "done"
    /\ UNCHANGED <<sequence, isRunning, temp_VTI_offset, controllers, data, dataLock,
                   idx, tidx, temp_setpoint_VTI, Temp_now, polls, raised, mvars, dvars, ovars>>

\* stop(), called from any other thread at any time
stop ==
    /\ isRunning' = FALSE
    /\ log' = IF isRunning THEN Append(log, Ev("stop", "Sequence_Thread", 0)) ELSE log
    /\ UNCHANGED <<sequence, temp_VTI_offset, widgetSetpoints, controllers, data,
                   dataLock, pc, idx, tidx, temp_setpoint_VTI, Temp_now, polls, raised,
                   result, mvars, dvars, ovars>>

\* setTempVTIOffset(offset)
setTempVTIOffset ==
    /\ \E offset \in Offsets : temp_VTI_offset' = offset
    /\ UNCHANGED <<sequence, isRunning, widgetSetpoints, controllers, data, dataLock,
                   pc, idx, tidx, temp_setpoint_VTI, Temp_now, polls, raised, result,
                   log, mvars, dvars, ovars>>

\* a telemetry thread enters "with dataLock" to refresh the shared data
UpdateLock ==
    /\ dataLock = "free"
    /\ dataLock' = "upd"
    /\ UNCHANGED <<sequence, isRunning, temp_VTI_offset, widgetSetpoints, controllers,
                   data, pc, idx, tidx, temp_setpoint_VTI, Temp_now, polls, raised,
                   result, log, mvars, dvars, ovars>>

\* the telemetry thread stores its readings and leaves the with block
UpdateData ==
    /\ dataLock = "upd"
    /\ dataLock' = "free"
    /\ data' \in [Sensor_1_K : TempValues, Field : FieldValues]
    /\ UNCHANGED <<sequence, isRunning, temp_VTI_offset, widgetSetpoints, controllers,
                   pc, idx, tidx, temp_setpoint_VTI, Temp_now, polls, raised, result,
                   log, mvars, dvars, ovars>>

Next ==
    \/ RunDisable
    \/ ForEntry
    \/ ScanNext
    \/ gettoset_Temperature
    \/ setTemperature
    \/ gettoset_Temp_K
    \/ setTemp_K
    \/ WaitTempCheck
    \/ WaitTempLock1
    \/ WaitTempRead1
    \/ WaitTempLock
    \/ WaitTempRead
    \/ WaitTempSleep
    \/ WaitFieldCheck
    \/ WaitFieldLock
    \/ WaitFieldPass
    \/ WaitFieldSleep
    \/ WaitDelay
    \/ ExceptBreakCondition
    \/ Finally
    \/ stop
    \/ setTempVTIOffset
    \/ UpdateLock
    \/ UpdateData

Spec == Init /\ [][Next]_vars

----------------------------------------------------------------------------
\* measure_resistance

None == -999                \* Python's None as value of conf['current_applied']
currentfactorsNegativeFirst == <<-1, 1>>   \* the polarities in the other order
currentfactors == <<1, -1>>

Currents == {-2, -1, 0, 1, 2}
Resistances == {0, 1, 3}
Offsets_V == {-2, 0, 4}

\* exact rationals <<numerator, denominator>>
RatAdd(a, b) == <<a[1] * b[2] + b[1] * a[2], a[2] * b[2]>>
RatEq(a, b) == a[1] * b[2] = b[1] * a[2]
RECURSIVE RatSum(_)
RatSum(s) == IF s = <<>> THEN <<0, 1>> ELSE RatAdd(Head(s), RatSum(Tail(s)))
\* np.mean of a non-empty list
Mean(s) == <<RatSum(s)[1], RatSum(s)[2] * Len(s)>>

\* the state outside a run of a Sequence_Thread
SequenceIdle ==
    /\ sequence = <<>>
    /\ data = [Sensor_1_K |-> 430, Field |-> 0]
    /\ SeqConstructed

\* the call measure_resistance(conf) is about to start on a rig whose control
\* loops run
InitMeasure ==
    /\ conf \in [current_applied : Currents \cup {None}, n_measurements : 1..MaxN]
    /\ rig \in [R : Resistances, V_off : Offsets_V, T : {430}, loops : {TRUE},
                toset : {NoValue}, current : {NoValue}]
    /\ mpc = "start"
    /\ midx = 0
    /\ cfi = 1
    /\ temps = <<>>
    /\ resistances = <<>>
    /\ mdata = "none"
    /\ mlog = <<>>
    /\ SequenceIdle
    /\ DriverIdle
    /\ OneShotIdle

\* an exception leaves measure_resistance
MRaise(e) ==
    /\ mpc' = "raised"
    /\ mdata' = e

\* loopcontrol_threads(conf['threads'], False)
PauseLoops ==
    /\ mpc = "start"
    /\ rig' = [rig EXCEPT !.loops = FALSE]
    /\ mlog' = Append(mlog, Ev("loopcontrol_threads", "threads", 0))
    /\ mpc' = "temp1"
    /\ UNCHANGED <<conf, midx, cfi, temps, resistances, mdata, seqvars, dvars, ovars>>

\* temps.append(conf['threads'][conf['threadname_Temp']].read_Temperatures())
read_Temperatures(at, next) ==
    /\ mpc = at
    /\ \E fault \in BOOLEAN :
         IF fault
           THEN /\ MRaise("Fault")
                /\ UNCHANGED <<rig, temps, mlog>>
           ELSE \E t \in TempValues :
                /\ rig' = [rig EXCEPT !.T = t]
                /\ temps' = Append(temps, <<t, 1>>)
                /\ mlog' = Append(mlog, Ev("read_Temperatures", "Temp", t))
                /\ mpc' = next
                /\ mdata' = mdata

ReadTempStart ==
    /\ read_Temperatures("temp1", "getto")
    /\ UNCHANGED <<conf, midx, cfi, resistances, seqvars, dvars, ovars>>

\* getto_setCurrent_A(conf['current_applied']*currentfactor): the argument is
\* evaluated first, and None*currentfactor raises TypeError
getto_setCurrent_A ==
    /\ mpc = "getto"
    /\ IF conf.current_applied = None
         THEN /\ MRaise("TypeError")
              /\ UNCHANGED <<rig, mlog>>
         ELSE \E fault \in BOOLEAN :
              IF fault
                THEN /\ MRaise("Fault")
                     /\ UNCHANGED <<rig, mlog>>
                ELSE /\ rig' = [rig EXCEPT !.toset = conf.current_applied * currentfactors[cfi]]
                     /\ mlog' = Append(mlog, Ev("getto_setCurrent_A", "CURR",
                                                conf.current_applied * currentfactors[cfi]))
                     /\ mpc' = "set"
                     /\ mdata' = mdata
    /\ UNCHANGED <<conf, midx, cfi, temps, resistances, seqvars, dvars, ovars>>

\* setCurrent_A(conf['current_applied']*currentfactor)
setCurrent_A ==
    /\ mpc = "set"
    /\ \E fault \in BOOLEAN :
         IF fault
           THEN /\ MRaise("Fault")
                /\ UNCHANGED <<rig, mlog>>
           ELSE /\ rig' = [rig EXCEPT !.current = conf.current_applied * currentfactors[cfi]]
                /\ mlog' = Append(mlog, Ev("setCurrent_A", "CURR",
                                           conf.current_applied * currentfactors[cfi]))
                /\ mpc' = "volt"
                /\ mdata' = mdata
    /\ UNCHANGED <<conf, midx, cfi, temps, resistances, seqvars, dvars, ovars>>

\* the voltage over the sample while the source drives `current`
V(current, R, V_off) == current * R + V_off

\* voltage = read_Voltage()*currentfactor
SignedVoltage(reading, currentfactor) == reading * currentfactor

\* voltage/(conf['current_applied']*currentfactor)
ResistanceSample(voltage, current_applied, currentfactor) ==
    <<voltage, current_applied * currentfactor>>

\* lines 43-44: read the voltage, append the resistance sample, and go on with
\* the next currentfactor, the next idx, or the end of the loops
read_Voltage ==
    /\ mpc = "volt"
    /\ \E fault \in BOOLEAN :
         IF fault
           THEN /\ MRaise("Fault")
                /\ UNCHANGED <<resistances, mlog, midx, cfi>>
           ELSE LET reading == V(rig.current, rig.R, rig.V_off)
                    voltage == SignedVoltage(reading, currentfactors[cfi])
                IN  /\ mlog' = Append(mlog, Ev("read_Voltage", "RES", reading))
                    /\ IF conf.current_applied * currentfactors[cfi] = 0
                         THEN /\ MRaise("ZeroDivisionError")
                              /\ UNCHANGED <<resistances, midx, cfi>>
                         ELSE /\ resistances' = Append(resistances,
                                     ResistanceSample(voltage, conf.current_applied,
                                                      currentfactors[cfi]))
                              /\ cfi' = IF cfi = 1 THEN 2 ELSE 1
                              /\ midx' = IF cfi = 1 THEN midx ELSE midx + 1
                              /\ mpc' = IF cfi = 2 /\ midx + 1 >= conf.n_measurements
                                          THEN "temp2" ELSE "getto"
                              /\ mdata' = mdata
    /\ UNCHANGED <<conf, rig, temps, seqvars, dvars, ovars>>

ReadTempEnd ==
    /\ read_Temperatures("temp2", "resume")
    /\ UNCHANGED <<conf, midx, cfi, resistances, seqvars, dvars, ovars>>

\* loopcontrol_threads(conf['threads'], True)
ResumeLoops ==
    /\ mpc = "resume"
    /\ rig' = [rig EXCEPT !.loops = TRUE]
    /\ mlog' = Append(mlog, Ev("loopcontrol_threads", "threads", 1))
    /\ mpc' = "compute"
    /\ UNCHANGED <<conf, midx, cfi, temps, resistances, mdata, seqvars, dvars, ovars>>

\* data[...] = np.mean(...); return data (the standard deviations are not
\* modelled)
ReturnData ==
    /\ mpc = "compute"
    /\ mdata' = [T_mean_K |-> Mean(temps), R_mean_Ohm |-> Mean(resistances)]
    /\ mpc' = "returned"
    /\ UNCHANGED <<conf, rig, midx, cfi, temps, resistances, mlog, seqvars, dvars, ovars>>

NextMeasure ==
    \/ PauseLoops
    \/ ReadTempStart
    \/ getto_setCurrent_A
    \/ setCurrent_A
    \/ read_Voltage
    \/ ReadTempEnd
    \/ ResumeLoops
    \/ ReturnData

SpecMeasure == InitMeasure /\ [][NextMeasure]_vars

----------------------------------------------------------------------------
\* Properties of Sequence_Thread.running

SetpointOps == {"gettoset_Temperature", "setTemperature", "gettoset_Temp_K", "setTemp_K"}

DisableEvents == {i \in DOMAIN log : log[i].op = "setEnabled" /\ log[i].val = 0}
EnableEvents == {i \in DOMAIN log : log[i].op = "setEnabled" /\ log[i].val = 1}
EmitEvents == {i \in DOMAIN log : log[i].op = "emit"}
StopEvents == {i \in DOMAIN log : log[i].op = "stop"}
SleepEvents == {i \in DOMAIN log : log[i].op = "sleep"}
\* a check of the stop flag that found it set: BreakCondition was raised
BreakEvents == {i \in DOMAIN log : log[i].op = "check" /\ log[i].val = 0}

\* each widget occurs exactly once among the events `evs`
OncePerWidget(evs) ==
    \A w \in Widgets : Cardinality({i \in evs : log[i].dev = w}) = 1

\* C1: in every run the setpoint controls are disabled exactly once, before any
\* other operation of the worker, and re-enabled exactly once, after every
\* other operation of the worker, whether the run completes, is aborted or
\* ends by a fault; once the run has ended the controls are enabled.
C1_ControlsBracketRun ==
    /\ pc = "idle" => DisableEvents = {} /\ EnableEvents = {}
    /\ pc # "idle" =>
          /\ OncePerWidget(DisableEvents)
          /\ \A i \in DisableEvents : \A j \in 1..(i - 1) :
                log[j].op \in {"setEnabled", "stop"}
    /\ pc \notin {"idle", "done"} =>
          /\ EnableEvents = {}
          /\ \A w \in Widgets : ~widgetSetpoints[w]
    /\ pc = "done" =>
          /\ result \in {"None", "Aborted!", "raised"}
          /\ OncePerWidget(EnableEvents)
          /\ \A i \in EnableEvents : \A j \in (i + 1)..Len(log) :
                log[j].op \in {"setEnabled", "stop"}
          /\ \A i \in DisableEvents : \A j \in EnableEvents : i < j
          /\ \A w \in Widgets : widgetSetpoints[w]

\* a run that ended by a fault raised inside a Wait step, controls enabled again
C1_Witness ==
    /\ pc = "done"
    /\ result = "raised"
    /\ \E i \in DOMAIN log : log[i].op = "check"
    /\ \A w \in Widgets : widgetSetpoints[w]

\* C2: once stop() has been called, no further setpoint command is issued to
\* any controller.
C2_NoSetpointAfterStop ==
    \A i \in StopEvents : \A j \in (i + 1)..Len(log) : log[j].op \notin SetpointOps

\* C3: after stop() the temperature wait performs at most one further poll
\* sleep, also when the temperature never converges.
C3_StopEndsWaitWithinOnePoll ==
    \A i \in StopEvents :
        Cardinality({j \in SleepEvents : j > i /\ log[j].dev = "wait_for_Temp"}) <= 1

\* C4: every sleep of the worker is preceded by a check of the stop flag made
\* after the previous sleep, and that check found the flag not set.
C4_CheckBeforeEverySleep ==
    \A i \in SleepEvents :
        \E j \in 1..(i - 1) :
            /\ log[j].op = "check"
            /\ log[j].val = 1
            /\ \A k \in (j + 1)..(i - 1) : log[k].op # "sleep"

\* C5: sig_aborted is emitted at most once; a run that ended via cancellation
\* (BreakCondition was raised) has emitted it exactly once and returned
\* 'Aborted!'; a run that completed all steps or ended by a fault has not
\* emitted it.
C5_AbortedEmittedOnce ==
    /\ Cardinality(EmitEvents) <= 1
    /\ pc = "done" =>
          IF BreakEvents # {}
            THEN Cardinality(EmitEvents) = 1 /\ result = "Aborted!"
            ELSE EmitEvents = {} /\ result \in {"None", "raised"}

\* a run that ended via cancellation and has emitted sig_aborted
C5_Witness ==
    /\ pc = "done"
    /\ result = "Aborted!"
    /\ BreakEvents # {}
    /\ Cardinality(EmitEvents) = 1

\* stop() was called while the run was Running: after the controls were
\* disabled and before the run left its try block
CancelledWhileRunning ==
    \E i \in StopEvents :
        /\ \E j \in DisableEvents : j < i
        /\ \A j \in EmitEvents \cup EnableEvents : i < j

\* C6: a run ends as Aborted, Completed or fault; a run cancelled while Running
\* that did not end by a fault is reported as Aborted, never as Completed, and
\* a run in which stop() was never called and no fault occurred is Completed.
C6_CancelledRunIsAborted ==
    pc = "done" =>
        /\ result \in {"None", "Aborted!", "raised"}
        /\ (CancelledWhileRunning /\ result # "raised") => result = "Aborted!"
        /\ (StopEvents = {} /\ result # "raised") => result = "None"

\* the index of the check that opened the Wait step now executing
WaitStart ==
    CHOOSE i \in DOMAIN log :
        /\ log[i].op = "check" /\ log[i].dev = "wait_for_Temp"
        /\ \A j \in (i + 1)..Len(log) : ~(log[j].op = "check" /\ log[j].dev = "wait_for_Temp")

\* C10: when the fixed delay of a Wait step is about to start, the worker has
\* in this step read a temperature within the threshold of the step's Temp and
\* after it a field within the threshold of the step's Field.
C10_DelayAfterTempThenField ==
    pc = "delay" =>
        \E j, k \in DOMAIN log :
            /\ WaitStart < j /\ j < k
            /\ log[j].op = "read" /\ log[j].dev = "Sensor_1_K"
            /\ Abs(log[j].val - sequence[idx].Temp) <= threshold
            /\ log[k].op = "read" /\ log[k].dev = "Field"
            /\ Abs(log[k].val - sequence[idx].Field) <= threshold

----------------------------------------------------------------------------
\* Properties of measure_resistance

\* C7: with an applied current different from 0 and readings V(+-I) =
\* +-I*R + V_off, the returned R_mean_Ohm equals R.
C7_OffsetCancellation ==
    (mpc = "returned" /\ conf.current_applied \notin {0, None}) =>
        RatEq(mdata.R_mean_Ohm, <<rig.R, 1>>)

\* C8: the control loops are not left paused once measure_resistance has
\* returned or raised.
C8_LoopsResumed ==
    mpc \in {"returned", "raised"} => rig.loops

\* C9: with current_applied unset the call fails before any hardware
\* interaction: nothing was paused, read or commanded when the error is raised.
C9_FailFastOnMissingCurrent ==
    conf.current_applied = None =>
        /\ mpc # "returned"
        /\ (mpc = "raised" /\ mdata = "TypeError") => (mlog = <<>> /\ rig.loops)

----------------------------------------------------------------------------
\* Order and values of the commands of Sequence_Thread.running

IsPrefix(a, b) == Len(a) <= Len(b) /\ SubSeq(b, 1, Len(a)) = a
Max(a, b) == IF a >= b THEN a ELSE b

IsSetpointOp(e) == e.op \in SetpointOps
IsDelay(e) == e.op = "sleep" /\ e.dev = "Delay"
IsIssued(e) == IsSetpointOp(e) \/ IsDelay(e)

\* the setpoint commands and Delay sleeps performed so far, with the value of
\* the intermediate-stage commands left out
Issued ==
    LET l == SelectSeq(log, IsIssued)
    IN  [i \in 1..Len(l) |-> IF l[i].dev = "control_ITC" THEN Ev(l[i].op, l[i].dev, 0) ELSE l[i]]

\* what the listed order of the entries and of their targets prescribes
RECURSIVE ScanPlan(_)
ScanPlan(ts) ==
    IF ts = <<>> THEN <<>>
    ELSE <<Ev("gettoset_Temperature", "control_ITC", 0),
           Ev("setTemperature", "control_ITC", 0),
           Ev("gettoset_Temp_K", "control_LakeShore350", Head(ts)),
           Ev("setTemp_K", "control_LakeShore350", Head(ts))>> \o ScanPlan(Tail(ts))
RECURSIVE Plan(_)
Plan(s) ==
    IF s = <<>> THEN <<>>
    ELSE (IF Head(s).typ = "scan_T"
            THEN ScanPlan(Head(s).sequence_temperature)
            ELSE <<Ev("sleep", "Delay", 10 * Head(s).Delay)>>) \o Plan(Tail(s))

CommitEvents == {i \in DOMAIN log : log[i].op \in {"setTemperature", "setTemp_K"}}
DelayEvents == {i \in DOMAIN log : IsDelay(log[i])}

\* C11: the commands and delays issued are at every moment a prefix of what the
\* listed order of steps and targets prescribes (per target one ITC prepare and
\* commit, then one LakeShore350 prepare and commit); a run that returns
\* normally has issued all of them; the run of [scan_T [4.3], Wait(4.3, 0, 1)]
\* has then committed two setpoints, slept one Delay of 1 s and is Completed.
C11_StepsInListOrder ==
    /\ IsPrefix(Issued, Plan(sequence))
    /\ (pc = "done" /\ result = "None") => Issued = Plan(sequence)
    /\ (pc = "done" /\ result = "None"
            /\ sequence = <<scan_T(<<430>>), Wait(430, 0, 1)>>) =>
          /\ Cardinality(CommitEvents) = 2
          /\ Cardinality(DelayEvents) = 1
          /\ \A i \in DelayEvents : log[i].val = 10

\* the example sequence has run to completion without stop() or fault
C11_Witness ==
    /\ pc = "done"
    /\ result = "None"
    /\ StopEvents = {}
    /\ sequence = <<scan_T(<<430>>), Wait(430, 0, 1)>>
    /\ Cardinality(CommitEvents) = 2

\* the scan targets of the entries of s, in order
RECURSIVE Targets(_)
Targets(s) ==
    IF s = <<>> THEN <<>>
    ELSE (IF Head(s).typ = "scan_T" THEN Head(s).sequence_temperature ELSE <<>>)
         \o Targets(Tail(s))

\* the setpoint commands performed so far: four per target
Cmds == SelectSeq(log, IsSetpointOp)

\* the values an intermediate setpoint for target t can take under the offsets
\* that can be configured
VTI_candidates(t) == {Max(VTI_floor, t - o) : o \in Offsets \cup {500}}

\* the values of the commands issued so far: the ITC is never commanded below
\* 4.3 K, it is committed with the value prepared, and the LakeShore350 is
\* prepared and committed with the target itself
CmdValues ==
    LET cmds == Cmds
        targets == Targets(sequence)
    IN  \A p \in 1..Len(cmds) :
            LET k == ((p - 1) \div 4) + 1
                r == (p - 1) % 4
                t == targets[k]
            IN  /\ k <= Len(targets)
                /\ r = 0 => /\ cmds[p].op = "gettoset_Temperature"
                            /\ cmds[p].val \in VTI_candidates(t)
                            /\ cmds[p].val >= VTI_floor
                /\ r = 1 => cmds[p].op = "setTemperature" /\ cmds[p].val = cmds[p - 1].val
                /\ r = 2 => cmds[p].op = "gettoset_Temp_K" /\ cmds[p].val = t
                /\ r = 3 => cmds[p].op = "setTemp_K" /\ cmds[p].val = t

\* the step that computes temp_setpoint_VTI for the next target uses the
\* offset configured at that moment
ComputesVTI ==
    (pc = "scan" /\ pc' = "itc_getto") =>
        LET t == sequence[idx].sequence_temperature[tidx]
        IN  /\ temp_setpoint_VTI' = Max(VTI_floor, t - temp_VTI_offset)
            /\ (temp_VTI_offset = 500 /\ t = 1000) => temp_setpoint_VTI' = 500
            /\ (temp_VTI_offset = 500 /\ t = 300) => temp_setpoint_VTI' = 430

\* the step that prepares the ITC setpoint commands the value computed
CommandsVTI ==
    (pc = "itc_getto" /\ pc' = "itc_set") =>
        /\ controllers'.control_ITC.toset = temp_setpoint_VTI
        /\ log' = Append(log, Ev("gettoset_Temperature", "control_ITC", temp_setpoint_VTI))

\* C13: for every scan target t and the offset configured when its
\* intermediate setpoint is computed, the ITC is prepared and committed with
\* max(4.3, t - offset), never below 4.3, and the LakeShore350 with t itself;
\* for the targets [10, 3] and offset 5 the ITC values are 5.0 and 4.3.
C13_SetpointValues ==
    /\ [][ComputesVTI /\ CommandsVTI]_vars
    /\ []CmdValues

\* the targets [10, 3] were scanned with offset 5: the ITC got 5.0 and then 4.3
C13_Witness ==
    /\ pc = "done"
    /\ sequence[1] = scan_T(<<1000, 300>>)
    /\ \E i, j \in DOMAIN log :
          /\ i < j
          /\ log[i] = Ev("setTemperature", "control_ITC", 500)
          /\ log[j] = Ev("setTemperature", "control_ITC", 430)
    /\ temp_VTI_offset = 500

----------------------------------------------------------------------------
\* wait_for_Temp, the data lock and the stop flag

\* the positions of the worker inside a Wait step after its first check
WaitPositions == {"wT_lock1", "wT_read1", "wT_lock", "wT_read", "wT_sleep",
                  "wF_check", "wF_lock", "wF_pass", "wF_sleep", "delay"}

\* the temperature reads of the Wait step now executing
ReadsOfWait == {i \in DOMAIN log : i > WaitStart /\ log[i].op = "read"}
FirstRead == CHOOSE i \in ReadsOfWait : \A j \in ReadsOfWait : i <= j
PollSleepsOfWait ==
    {i \in SleepEvents : i > WaitStart /\ log[i].dev = "wait_for_Temp"}

\* C12: when the first temperature read of a wait is within the threshold of
\* the target (|read - target| <= threshold, equality included), wait_for_Temp
\* returns without another read and without any sleep.
C12_ConvergedImmediately ==
    (/\ pc \in WaitPositions
     /\ ReadsOfWait # {}
     /\ Abs(log[FirstRead].val - sequence[idx].Temp) <= threshold) =>
        /\ pc \notin {"wT_lock", "wT_read", "wT_sleep"}
        /\ PollSleepsOfWait = {}
        /\ Cardinality(ReadsOfWait) = 1

\* wait_for_Temp has returned after a first read exactly `threshold` off target
C12_Witness ==
    /\ pc = "wF_check"
    /\ ReadsOfWait # {}
    /\ Abs(log[FirstRead].val - sequence[idx].Temp) = threshold
    /\ PollSleepsOfWait = {}

\* C14: the worker holds dataLock only at the read of the telemetry value (and
\* the empty locked section of wait_for_Field): not when it is about to sleep
\* or to call a controller, and not after an exception or at the end of the run.
C14_NoSleepUnderLock ==
    /\ dataLock = "seq" => pc \in {"wT_read1", "wT_read", "wF_pass"}
    /\ pc \in {"wT_sleep", "wF_sleep", "delay", "itc_getto", "itc_set", "ls_getto",
               "ls_set", "except", "finally", "done"} => dataLock # "seq"

\* the worker is about to sleep while a telemetry thread holds the lock
C14_Witness ==
    /\ pc = "wT_sleep"
    /\ dataLock = "upd"

\* C16: only stop() changes the stop flag and the step that changes it changes
\* nothing else of the instance; stop() can always be taken (it never blocks);
\* a second stop() changes nothing; once the flag is set no step resets it.
C16_StopOnlySetsFlag ==
    /\ [][(isRunning' # isRunning) =>
             /\ isRunning' = FALSE
             /\ UNCHANGED <<sequence, temp_VTI_offset, widgetSetpoints, controllers, data,
                            dataLock, pc, idx, tidx, temp_setpoint_VTI, Temp_now, polls,
                            raised, result, mvars, dvars, ovars>>]_vars
    /\ [][~isRunning => ~isRunning']_vars
    /\ [](ENABLED stop)
    /\ [](~isRunning => ~ENABLED <<stop>>_vars)

\* stop() was called while the worker was polling, and the worker went on
C16_Witness ==
    /\ ~isRunning
    /\ pc = "wT_sleep"
    /\ PollSleepsOfWait # {}

----------------------------------------------------------------------------
\* Termination of a run

\* the steps of the worker thread that need no lock
WorkerStep ==
    \/ RunDisable \/ ForEntry \/ ScanNext
    \/ gettoset_Temperature \/ setTemperature \/ gettoset_Temp_K \/ setTemp_K
    \/ WaitTempCheck \/ WaitTempRead1 \/ WaitTempRead \/ WaitTempSleep
    \/ WaitFieldCheck \/ WaitFieldPass \/ WaitFieldSleep \/ WaitDelay
    \/ ExceptBreakCondition \/ Finally

\* the steps in which the worker enters "with self.dataLock"
WorkerLockStep == WaitTempLock1 \/ WaitTempLock \/ WaitFieldLock

\* the worker thread keeps being scheduled, a thread that waits for dataLock
\* gets it when it is released again and again, and a telemetry thread that
\* holds dataLock leaves its with block
SpecLive ==
    /\ Init
    /\ [][Next]_vars
    /\ WF_vars(WorkerStep)
    /\ SF_vars(WorkerLockStep)
    /\ WF_vars(UpdateData)

\* the telemetry temperature is within the threshold of every Wait target
TempWithin ==
    \A i \in DOMAIN sequence :
        sequence[i].typ = "Wait" => ~NotReached(data.Sensor_1_K, sequence[i].Temp, threshold)

\* stop() has not been called, no fault was raised, and the polling loop has
\* not used up the iterations explored
Undisturbed ==
    /\ isRunning
    /\ raised = "none"
    /\ pc = "wT_lock" => polls < MaxPolls

Completed ==
    /\ pc = "done"
    /\ result = "None"
    /\ \A w \in Widgets : widgetSetpoints[w]

\* C18: under fair scheduling, a run in which stop() is never called and no
\* fault occurs and whose telemetry temperature eventually stays within the
\* threshold of the Wait targets eventually ends as Completed with the controls
\* re-enabled.
C18_EventuallyCompleted ==
    (<>[]TempWithin /\ []Undisturbed) => <>Completed

\* a run that had to poll has ended as Completed, never stopped
C18_Witness ==
    /\ Completed
    /\ isRunning
    /\ \E i \in SleepEvents : log[i].dev = "wait_for_Temp"

----------------------------------------------------------------------------
\* Order of the operations of measure_resistance

\* mlog with the values read from the instruments left out
MOps ==
    [i \in 1..Len(mlog) |->
        IF mlog[i].op \in {"read_Temperatures", "read_Voltage"}
          THEN Ev(mlog[i].op, mlog[i].dev, 0) ELSE mlog[i]]

\* one polarity: prepare the signed current, commit it, read one voltage
PolarityOps(I) ==
    <<Ev("getto_setCurrent_A", "CURR", I), Ev("setCurrent_A", "CURR", I),
      Ev("read_Voltage", "RES", 0)>>

\* n iterations, each with polarity +1 and then polarity -1
RECURSIVE IterationOps(_, _)
IterationOps(I, n) ==
    IF n = 0 THEN <<>>
    ELSE PolarityOps(I) \o PolarityOps(-I) \o IterationOps(I, n - 1)

MeasurePlan(I, n) ==
    <<Ev("loopcontrol_threads", "threads", 0), Ev("read_Temperatures", "Temp", 0)>>
    \o IterationOps(I, n)
    \o <<Ev("read_Temperatures", "Temp", 0), Ev("loopcontrol_threads", "threads", 1)>>

\* C17: the operations of measure_resistance are at every moment a prefix of:
\* pause, one temperature read, n times (+I prepared, committed, one voltage
\* read, then -I prepared, committed, one voltage read), one temperature read,
\* resume; a call that returns has performed all of them and has taken 2
\* temperature samples and 2n resistance samples.
C17_MeasurementOrder ==
    /\ conf.current_applied # None =>
          IsPrefix(MOps, MeasurePlan(conf.current_applied, conf.n_measurements))
    /\ mpc = "returned" =>
          /\ MOps = MeasurePlan(conf.current_applied, conf.n_measurements)
          /\ Len(temps) = 2
          /\ Len(resistances) = 2 * conf.n_measurements

\* a measurement with more than one iteration has returned
C17_Witness ==
    /\ mpc = "returned"
    /\ conf.n_measurements > 1
    /\ Len(resistances) = 2 * conf.n_measurements

----------------------------------------------------------------------------
\* AbstractSerialDeviceDriver (drivers.py)

\* timeouterror = VisaIOError(-1073807339)
timeouterror == [type |-> "VisaIOError", code |-> -1073807339]

\* errors a VISA operation can raise: the timeout, another VisaIOError
\* (VI_ERROR_IO), and an error that is no VisaIOError
Errors == {timeouterror,
           [type |-> "VisaIOError", code |-> -1073807298],
           [type |-> "OSError", code |-> -1073807339]}

\* the args of an exception: for a VisaIOError the message built from its code
Args(e) == <<e.code>>

\* the calls a thread can make on the driver
DriverCalls == {[op |-> "write", f |-> FALSE], [op |-> "write", f |-> TRUE],
                [op |-> "query", f |-> FALSE], [op |-> "read", f |-> FALSE],
                [op |-> "clear_buffers", f |-> FALSE]}

\* write(command, f=True) does not enter "with self._comLock"
TakesLock(call) == ~(call.op = "write" /\ call.f)

\* variant: every VisaIOError is passed over
SwallowedAnyVisaIOError(e) == e.type = "VisaIOError"

\* the except clause of clear_buffers: this VisaIOError is passed over
Swallowed(e) ==
    /\ e.type = "VisaIOError"
    /\ e.type = timeouterror.type /\ Args(e) = Args(timeouterror)

\* how clear_buffers ends when its self.read() did e
ClearBuffersOutcome(e) ==
    IF e = Ok THEN Ok
    ELSE IF e.type = "VisaIOError"
           THEN (IF Swallowed(e) THEN Ok ELSE e)
           ELSE e

\* variant: the with block ends before time.sleep(self.delay)
LockAfterVisaReleased(t, e) == IF comLock = t THEN 0 ELSE comLock

\* who holds _comLock when the VISA operation of thread t has ended with e:
\* write and query keep it for time.sleep(self.delay), inside the with block
LockAfterVisa(t, e) ==
    IF comLock = t /\ e = Ok /\ dcall[t].op \in {"write", "query"} THEN t
    ELSE IF comLock = t THEN 0 ELSE comLock

InitDriver ==
    /\ DriverIdle
    /\ OneShotIdle
    /\ MeasureIdle
    /\ SequenceIdle

\* a thread calls write, query, read or clear_buffers
DriverCall(t) ==
    /\ dpc[t] = "idle"
    /\ \E call \in DriverCalls :
         /\ dcall' = [dcall EXCEPT ![t] = call]
         /\ dpc' = [dpc EXCEPT ![t] = IF TakesLock(call) THEN "acquire" ELSE "visa"]
    /\ dread' = [dread EXCEPT ![t] = NoOutcome]
    /\ dout' = [dout EXCEPT ![t] = NoOutcome]
    /\ UNCHANGED <<comLock, seqvars, mvars, ovars>>

\* "with self._comLock:" is entered and the VISA operation starts
AcquireComLock(t) ==
    /\ dpc[t] = "acquire"
    /\ comLock = 0
    /\ comLock' = t
    /\ dpc' = [dpc EXCEPT ![t] = "visa"]
    /\ UNCHANGED <<dcall, dread, dout, seqvars, mvars, ovars>>

\* self._visa_resource.write/query/read returns or raises; write and query go
\* on to their sleep, read returns, clear_buffers handles what read raised
VisaDone(t) ==
    /\ dpc[t] = "visa"
    /\ \E e \in {Ok} \cup Errors :
         /\ dread' = [dread EXCEPT ![t] = e]
         /\ comLock' = LockAfterVisa(t, e)
         /\ IF e = Ok /\ dcall[t].op = "write"
              THEN /\ dpc' = [dpc EXCEPT ![t] = "sleep"]
                   /\ dout' = dout
              ELSE IF e = Ok /\ dcall[t].op = "query"
                     THEN /\ dpc' = [dpc EXCEPT ![t] = "sleep"]
                          /\ dout' = dout
                     ELSE /\ dpc' = [dpc EXCEPT ![t] = "idle"]
                          /\ dout' = [dout EXCEPT ![t] =
                                IF dcall[t].op = "clear_buffers"
                                  THEN ClearBuffersOutcome(e) ELSE e]
    /\ UNCHANGED <<dcall, seqvars, mvars, ovars>>

\* time.sleep(self.delay) or time.sleep(self.delay_force) is over; the with
\* block, if any, is left and the call returns
SleepDone(t) ==
    /\ dpc[t] = "sleep"
    /\ comLock' = IF comLock = t THEN 0 ELSE comLock
    /\ dpc' = [dpc EXCEPT ![t] = "idle"]
    /\ dout' = [dout EXCEPT ![t] = Ok]
    /\ UNCHANGED <<dcall, dread, seqvars, mvars, ovars>>

NextDriver ==
    \E t \in Threads :
        \/ DriverCall(t)
        \/ AcquireComLock(t)
        \/ VisaDone(t)
        \/ SleepDone(t)

SpecDriver == InitDriver /\ [][NextDriver]_vars

----------------------------------------------------------------------------
\* OneShot_Thread

\* n_measurements=10 in the conf built by __init__
n_measurements_default == 10

\* the method the lambda connected to sig_measure_oneshot calls on self
LambdaTarget == "measure"

\* what the class body and __init__ of OneShot_Thread define on self
OwnAttributes == {"mainthread", "conf", "update_conf", "measure_oneshot"}

\* what the event-handling base class provides to its subclasses
InheritedAttributes == {"running"}

\* getattr(self, name) finds something
Resolves(name) == name \in OwnAttributes \cup InheritedAttributes

\* the currents a one-shot measurement is configured with
OneShotCurrents == {0, 2}

KeyValues ==
    {<<"current_applied", v>> : v \in OneShotCurrents \cup {None}}
        \cup {<<"n_measurements", n>> : n \in 1..MaxN}

InitOneShot ==
    /\ conf = [current_applied |-> None, n_measurements |-> n_measurements_default]
    /\ rig = [R |-> 3, V_off |-> 4, T |-> 430, loops |-> TRUE,
              toset |-> NoValue, current |-> NoValue]
    /\ mpc = "idle"
    /\ midx = 0
    /\ cfi = 0
    /\ temps = <<>>
    /\ resistances = <<>>
    /\ mdata = "none"
    /\ mlog = <<>>
    /\ OneShotIdle
    /\ DriverIdle
    /\ SequenceIdle

\* the main thread emits sig_measure_oneshot
EmitRequest ==
    /\ pending + handled + slotcalls < MaxRequests
    /\ pending' = pending + 1
    /\ UNCHANGED <<opc, handled, slotcalls, mcalls, stored, mvars, seqvars, dvars>>

\* update_conf(key, value), between two measurements
update_conf ==
    /\ opc = "idle"
    /\ \E kv \in KeyValues : conf' = [conf EXCEPT ![kv[1]] = kv[2]]
    /\ UNCHANGED <<rig, mpc, midx, cfi, temps, resistances, mdata, mlog,
                   ovars, seqvars, dvars>>

\* data = measure_resistance(conf) is entered
CallMeasureResistance ==
    /\ opc' = "measuring"
    /\ mcalls' = mcalls + 1
    /\ mpc' = "start"
    /\ midx' = 0
    /\ cfi' = 1
    /\ temps' = <<>>
    /\ resistances' = <<>>
    /\ mdata' = "none"
    /\ mlog' = <<>>

\* measure_oneshot is left: the locals of the call are gone
LeaveMeasureResistance ==
    /\ mpc' = "idle"
    /\ midx' = 0
    /\ cfi' = 0
    /\ temps' = <<>>
    /\ resistances' = <<>>
    /\ mdata' = "none"
    /\ mlog' = <<>>

\* the slot of sig_measure_oneshot: lambda value: self.measure(self.conf).
\* When self has the method it measures; otherwise the lookup raises
\* AttributeError and the slot ends.
HandleRequest ==
    /\ opc = "idle"
    /\ pending > 0
    /\ pending' = pending - 1
    /\ handled' = handled + 1
    /\ IF Resolves(LambdaTarget)
         THEN CallMeasureResistance
         ELSE UNCHANGED <<opc, mcalls, mpc, midx, cfi, temps, resistances,
                          mdata, mlog>>
    /\ UNCHANGED <<conf, rig, slotcalls, stored, seqvars, dvars>>

\* measure_oneshot(conf) invoked as a slot with the thread's conf
measure_oneshot ==
    /\ opc = "idle"
    /\ pending + handled + slotcalls < MaxRequests
    /\ slotcalls' = slotcalls + 1
    /\ CallMeasureResistance
    /\ UNCHANGED <<conf, rig, pending, handled, stored, seqvars, dvars>>

\* conf['store_signal'].emit(deepcopy(data))
StoreResult ==
    /\ opc = "measuring"
    /\ mpc = "returned"
    /\ stored' = Append(stored, mdata)
    /\ opc' = "idle"
    /\ LeaveMeasureResistance
    /\ UNCHANGED <<pending, handled, slotcalls, mcalls, conf, rig, seqvars, dvars>>

\* measure_resistance raised: the exception leaves measure_oneshot before the
\* emit
MeasureFailed ==
    /\ opc = "measuring"
    /\ mpc = "raised"
    /\ opc' = "idle"
    /\ LeaveMeasureResistance
    /\ UNCHANGED <<pending, handled, slotcalls, mcalls, stored, conf, rig,
                   seqvars, dvars>>

NextOneShot ==
    \/ EmitRequest
    \/ update_conf
    \/ HandleRequest
    \/ measure_oneshot
    \/ NextMeasure
    \/ StoreResult
    \/ MeasureFailed

SpecOneShot == InitOneShot /\ [][NextOneShot]_vars

----------------------------------------------------------------------------
\* Properties of the driver

\* thread t has returned from (or been thrown out of) a clear_buffers call
ClearBuffersDone(t) ==
    /\ dpc[t] = "idle"
    /\ dcall[t].op = "clear_buffers"
    /\ dread[t] # NoOutcome

\* the known timeout: a VisaIOError with the args of code -1073807339
IsKnownTimeout(e) == e.type = "VisaIOError" /\ e.code = timeouterror.code

\* C15: clear_buffers swallows an error of its read only when that error is a
\* VisaIOError whose args equal those of the known timeout; every other error
\* of the read reaches the caller unchanged, and a read that succeeds makes
\* clear_buffers return without an error.
C15_ClearBuffersSwallowsOnlyTimeout ==
    \A t \in Threads :
        ClearBuffersDone(t) =>
            /\ (dread[t] = Ok => dout[t] = Ok)
            /\ (dread[t] # Ok /\ IsKnownTimeout(dread[t]) => dout[t] = Ok)
            /\ (dread[t] # Ok /\ ~IsKnownTimeout(dread[t]) => dout[t] = dread[t])

\* one clear_buffers call swallowed the timeout while another one let a
\* VisaIOError with a different code through
C15_Witness ==
    \E t, u \in Threads :
        /\ ClearBuffersDone(t) /\ dread[t] = timeouterror /\ dout[t] = Ok
        /\ ClearBuffersDone(u) /\ dread[u].type = "VisaIOError"
        /\ dread[u] # timeouterror /\ dout[u] = dread[u]

\* thread t is inside a VISA write/query/read
InVisa(t) == dpc[t] = "visa"

\* thread t is inside a VISA operation or in the delay after its command
Busy(t) == dpc[t] \in {"visa", "sleep"}

\* thread t is in write(command, f=True)
Forced(t) == dcall[t].op = "write" /\ dcall[t].f

----------------------------------------------------------------------------
\* Properties of OneShot_Thread

\* C20: every handled emission of sig_measure_oneshot starts exactly one call
\* of measure_resistance with the thread's conf; the result of a call is
\* emitted once on the store signal, after the control loops were resumed;
\* a call that fails emits nothing.
C20_RequestMeasuredAndStored ==
    /\ [][handled' = handled + 1 =>
            (mcalls' = mcalls + 1 /\ mpc' = "start" /\ conf' = conf)]_vars
    /\ [][stored' # stored =>
            (stored' = Append(stored, mdata) /\ mpc = "returned" /\ rig.loops)]_vars
    /\ [][(opc = "measuring" /\ mpc = "raised") => stored' = stored]_vars
    /\ [](Len(stored) <= mcalls)

====
